---- MODULE Spec2Model ----
(***************************************************************************)
(* A model of adwlauncher: desktop-entry discovery with its timestamp      *)
(* cache (app_discovery.rs, cache.rs), the usage tracker (usage.rs), the   *)
(* launch dispatcher (app_discovery.rs) and the relm4 component of main.rs *)
(* (entry list, fuzzy filter, selection, launch).                          *)
(*                                                                         *)
(* Strings whose characters the code inspects (names, queries, exec) are   *)
(* sequences of one-character strings; icon tokens are plain strings.      *)
(* Option<T> is a sequence of length at most one.                          *)
(***************************************************************************)
EXTENDS Integers, Sequences, FiniteSets, TLC

VARIABLES
    fs_dirs,      \* the canonical application directories on disk
    fs_clock,     \* the filesystem's clock (source of modification times)
    fs_cache,     \* the cache file entries.cache
    pc,           \* position of the running app_discovery::get_entries call
    d_entries,    \* get_desktop_entries_cached: the entries it holds
    ret,          \* result of the last get_entries call
    warm,         \* Some(CacheData) of the last successful rebuild-and-save, while
                  \* neither the directories nor the cache file changed since
    path,         \* how the running get_desktop_entries_cached call got its entries
    stats,        \* UsageTracker.stats: app name -> UsageStats
    now,          \* the system clock read by current_timestamp()
    overflow_checks, \* whether the build panics on integer overflow
    u_status,     \* "ok", or "panicked" once a record_launch call panicked
    u_total,      \* record_launch calls made so far
    u_name,       \* the name given to the last record_launch call
    u_hist,       \* per name created by a call: Some(<<calls, time of the last>>)
    b_result,     \* per name, the boost calculate_boost returned last
    u_file,       \* the usage file on disk
    a_status,     \* the component: "starting", "running" or "panicked"
    all_entries,  \* App.all_entries
    entries,      \* App.entries: the rows of the factory, each with its selected flag
    selected_index, \* App.selected_index
    selected_name,  \* App.selected_name
    search_query, \* App.search_query
    visible,      \* whether the window is shown
    last          \* what the last dispatch (SelectEntry or launch_entry) did

cvars == <<fs_dirs, fs_clock, fs_cache, pc, d_entries, ret, warm, path>>
tvars == <<stats, now, overflow_checks>>
uvars == <<u_status, u_total, u_name, u_hist, b_result, u_file>>
avars == <<a_status, all_entries, entries, selected_index, selected_name,
           search_query, visible, last>>
vars == <<cvars, tvars, uvars, avars>>

(***************************************************************************)
(* Bounds                                                                  *)
(***************************************************************************)
NumDirs == 2      \* canonical directories modelled
MaxTime == 2      \* modification times are 1..MaxTime

Dirs == 1..NumDirs
Times == 1..MaxTime

None == <<>>
Some(x) == <<x>>

(***************************************************************************)
(* types.rs                                                                *)
(***************************************************************************)
OpenType == {"Graphical", "Terminal", "Window"}

Entry(open_type, exec, icon, name) ==
    [open_type |-> open_type, exec |-> exec, icon |-> icon, name |-> name]

(***************************************************************************)
(* icon.rs                                                                 *)
(***************************************************************************)
get_fallback_icon == "application-x-executable"

\* The icon files on disk: absolute paths that exist, files of the pixmap
\* directories, and icons of the theme directories (by base name).
AbsoluteIcons == {"/opt/a/icon.png"}
PixmapIcons == [n \in {"b.png"} |-> "/usr/share/pixmaps/b.png"]
ThemeIcons == [n \in {"firefox"} |-> "/usr/share/icons/hicolor/256x256/apps/firefox.png"]
StartsWithSlash == {"/opt/a/icon.png", "/missing.png"}
ContainsDot == {"/opt/a/icon.png", "/missing.png", "b.png", "c.svg"}
IconBase == [n \in {"c.svg"} |-> "c"]

find_in_pixmaps(icon_name) ==
    IF icon_name \in DOMAIN PixmapIcons THEN Some(PixmapIcons[icon_name]) ELSE None

find_in_icon_themes(icon_name) ==
    LET icon_base == IF icon_name \in DOMAIN IconBase THEN IconBase[icon_name] ELSE icon_name
    IN  IF icon_base \in DOMAIN ThemeIcons THEN Some(ThemeIcons[icon_base]) ELSE None

resolve_icon_path(icon_name) ==
    IF icon_name \in StartsWithSlash /\ icon_name \in AbsoluteIcons
    THEN Some(icon_name)
    ELSE IF icon_name \in ContainsDot /\ find_in_pixmaps(icon_name) # None
    THEN find_in_pixmaps(icon_name)
    ELSE IF find_in_icon_themes(icon_name) # None
    THEN find_in_icon_themes(icon_name)
    ELSE Some(icon_name)

(***************************************************************************)
(* Desktop files: what the parser (freedesktop_desktop_entry) reports      *)
(***************************************************************************)
DesktopFile(parses, name, exec, icon, terminal) ==
    [parses |-> parses, name |-> name, exec |-> exec, icon |-> icon, terminal |-> terminal]

FileFirefox == DesktopFile(TRUE, Some(<<"F","x">>), Some(<<"f","x"," ","%","u">>), Some("firefox"), FALSE)
FileVim == DesktopFile(TRUE, Some(<<"V","i">>), Some(<<"v","i">>), None, TRUE)
FileMalformed == DesktopFile(FALSE, None, None, None, FALSE)
FileNoName == DesktopFile(TRUE, None, Some(<<"x">>), None, FALSE)
FileEmptyName == DesktopFile(TRUE, Some(<<>>), Some(<<"x">>), None, FALSE)
FileBlankIcon == DesktopFile(TRUE, Some(<<"f","i">>), Some(<<"f","i">>), Some(""), FALSE)

\* The directory listings read_dir can return.
Listings ==
    { <<>>, <<FileFirefox>>, <<FileMalformed, FileVim, FileEmptyName, FileNoName, FileFirefox, FileBlankIcon>> }

Dir(exists, mtime, files) == [exists |-> exists, mtime |-> mtime, files |-> files]

AbsentDir == Dir(FALSE, 1, <<>>)

(***************************************************************************)
(* cache.rs                                                                *)
(***************************************************************************)
CacheData(list, directory_timestamps) ==
    [entries |-> list, directory_timestamps |-> directory_timestamps]

CacheData_new == CacheData(<<>>, <<>>)

\* The cache file: absent, undecodable bytes, or a serialized CacheData.
CacheFile(kind, data) == [kind |-> kind, data |-> data]

get_dir_mtime(dirs, d) ==
    IF dirs[d].exists THEN Some(dirs[d].mtime) ELSE None

\* is_valid with a directory missing from the stored map skipped instead of
\* invalidating the cache.
is_valid_skip_unstored(cache_data, dirs) ==
    \A dir \in Dirs :
        \/ ~dirs[dir].exists
        \/ dir \notin DOMAIN cache_data.directory_timestamps
        \/ cache_data.directory_timestamps[dir] = dirs[dir].mtime

\* Cache::is_valid: the loop returns false at the first directory that exists
\* and whose modification time is unreadable, unstored or different.
is_valid(cache_data, dirs) ==
    \A dir \in Dirs :
        \/ ~dirs[dir].exists
        \/ /\ get_dir_mtime(dirs, dir) # None
           /\ dir \in DOMAIN cache_data.directory_timestamps
           /\ cache_data.directory_timestamps[dir] = get_dir_mtime(dirs, dir)[1]

\* collect_directory_timestamps that leaves out the first directory.
collect_directory_timestamps_skip_first(dirs) ==
    [d \in {x \in Dirs : x > 1 /\ dirs[x].exists} |-> dirs[d].mtime]

collect_directory_timestamps(dirs) ==
    [d \in {x \in Dirs : get_dir_mtime(dirs, x) # None} |-> get_dir_mtime(dirs, d)[1]]

\* Cache::load: Ok(data) or Err.
Ok(v) == [kind |-> "Ok", val |-> v]
Err(e) == [kind |-> "Err", val |-> e]

Cache_load(file, read_ok) ==
    IF file.kind = "absent" THEN Ok(CacheData_new)
    ELSE IF ~read_ok THEN Err("Io")
    ELSE IF file.kind = "corrupt" THEN Err("Io")
    ELSE Ok(file.data)

(***************************************************************************)
(* app_discovery.rs: parsing and rebuild                                   *)
(***************************************************************************)
parse_desktop_entry(file) ==
    IF ~file.parses THEN Err("DesktopEntry")
    ELSE IF file.name = None THEN Err("DesktopEntry")
    ELSE IF file.name[1] = <<>> THEN Err("DesktopEntry")
    ELSE LET icon_name == IF file.icon = None THEN get_fallback_icon ELSE file.icon[1]
             resolved == resolve_icon_path(icon_name)
             icon == IF resolved = None THEN get_fallback_icon ELSE resolved[1]
         IN  Ok(Entry(IF file.terminal THEN "Terminal" ELSE "Graphical",
                      IF file.exec = None THEN <<>> ELSE file.exec[1],
                      icon,
                      file.name[1]))

\* The orders in which the parallel parses of a directory can complete: the
\* positions of its files, each once (positions past its length are left out).
CompletionOrders == { <<1, 2, 3, 4, 5, 6>>, <<6, 5, 4, 3, 2, 1>>, <<2, 6, 4, 1, 5, 3>> }

\* The parses completing in the given order, each result put at the position
\* of its file.
RECURSIVE par_filter_map(_, _, _)
par_filter_map(files, order, slots) ==
    IF order = <<>> THEN slots
    ELSE IF Head(order) > Len(files) THEN par_filter_map(files, Tail(order), slots)
    ELSE par_filter_map(files, Tail(order),
            [slots EXCEPT ![Head(order)] = Some(parse_desktop_entry(files[Head(order)]))])

\* collect(): the entries of the parses that returned Ok, by position.
RECURSIVE collect(_, _)
collect(slots, i) ==
    IF i > Len(slots) THEN <<>>
    ELSE (IF slots[i] # None /\ slots[i][1].kind = "Ok" THEN <<slots[i][1].val>> ELSE <<>>)
         \o collect(slots, i + 1)

\* The entries collected as the parses complete instead of by position.
RECURSIVE parse_files_in_completion_order(_, _)
parse_files_in_completion_order(files, order) ==
    IF order = <<>> THEN <<>>
    ELSE IF Head(order) > Len(files) THEN parse_files_in_completion_order(files, Tail(order))
    ELSE LET r == parse_desktop_entry(files[Head(order)])
         IN  (IF r.kind = "Ok" THEN <<r.val>> ELSE <<>>)
             \o parse_files_in_completion_order(files, Tail(order))

\* dir.collect().into_par_iter().filter_map(..).collect() of one directory
parse_files(files, order) ==
    collect(par_filter_map(files, order, [i \in 1..Len(files) |-> None]), 1)

RECURSIVE get_desktop_entries_from(_, _, _)
get_desktop_entries_from(dirs, d, order) ==
    IF d > NumDirs THEN <<>>
    ELSE (IF dirs[d].exists THEN parse_files(dirs[d].files, order) ELSE <<>>)
         \o get_desktop_entries_from(dirs, d + 1, order)

get_desktop_entries(dirs, order) == get_desktop_entries_from(dirs, 1, order)

(***************************************************************************)
(* The compositor (niri_ipc): what a Request::Windows round trip yields    *)
(***************************************************************************)
NiriStates == {"up", "down", "send_err", "niri_err", "bad_variant"}

Window(id, title, app_id) == [id |-> id, title |-> title, app_id |-> app_id]

WindowLists ==
    { <<>>,
      <<Window(7, Some(<<"T","m">>), Some("term")), Window(8, None, Some("x"))>>,
      <<Window(42, Some(<<"F","x">>), None), Window(9, Some(<<>>), Some("y")),
        Window(5, Some(<<"T","m">>), Some(""))>> }

Digit == <<"0", "1", "2", "3", "4", "5", "6", "7", "8", "9">>

\* u64::to_string
RECURSIVE to_string(_)
to_string(n) ==
    IF n < 10 THEN <<Digit[n + 1]>> ELSE to_string(n \div 10) \o <<Digit[(n % 10) + 1]>>

RECURSIVE window_entries(_)
window_entries(windows) ==
    IF windows = <<>> THEN <<>>
    ELSE LET window == Head(windows)
             name == IF window.title = None THEN <<>> ELSE window.title[1]
         IN  (IF name = <<>> THEN <<>>
              ELSE IF window.app_id = None THEN <<>>
              ELSE LET resolved == resolve_icon_path(window.app_id[1])
                       icon == IF resolved = None THEN window.app_id[1] ELSE resolved[1]
                   IN  <<Entry("Window", to_string(window.id), icon, name)>>)
             \o window_entries(Tail(windows))

get_window_entries(niri, windows) ==
    IF niri = "down" THEN Err("NiriConnection")
    ELSE IF niri \in {"send_err", "niri_err", "bad_variant"} THEN Err("NiriRequest")
    ELSE Ok(window_entries(windows))

(***************************************************************************)
(* The parts at rest: each specification below runs one part of the        *)
(* program and leaves the variables of the others as they are here.        *)
(***************************************************************************)
AppNames == { <<"F","x">>, <<"f","i">>, <<"V","i">> }

TIdle ==
    /\ stats = <<>>
    /\ now = 1700000000
    /\ overflow_checks = FALSE

\* The usage file: absent, undecodable bytes, or a serialized tracker.
UsageFile(kind, data) == [kind |-> kind, data |-> data]

UIdle ==
    /\ u_file = UsageFile("absent", <<>>)
    /\ u_status = "ok"
    /\ u_total = 0
    /\ u_name = <<>>
    /\ u_hist = [n \in AppNames |-> None]
    /\ b_result = [n \in AppNames |-> 0]

NoDispatch ==
    [fn |-> "none", entry |-> [open_type |-> "Graphical", exec |-> <<>>, icon |-> "", name |-> <<>>],
     connected |-> FALSE, sent |-> None, result |-> "none"]

AIdle ==
    /\ a_status = "starting"
    /\ all_entries = <<>>
    /\ entries = <<>>
    /\ selected_index = 0
    /\ selected_name = <<>>
    /\ search_query = <<>>
    /\ visible = FALSE
    /\ last = NoDispatch

(***************************************************************************)
(* The environment: the user's file system                                 *)
(***************************************************************************)
\* A file is added to, removed from or rewritten in a directory.
ModifyDir(d) ==
    /\ pc # "done"
    /\ fs_dirs[d].exists
    /\ \E files \in Listings \ {fs_dirs[d].files} :
           fs_dirs' = [fs_dirs EXCEPT ![d] = Dir(TRUE, fs_clock, files)]
    /\ warm' = None
    /\ UNCHANGED <<fs_clock, fs_cache, pc, d_entries, ret, path>>
    /\ UNCHANGED <<tvars, uvars, avars>>

CreateDir(d) ==
    /\ pc # "done"
    /\ ~fs_dirs[d].exists
    /\ \E files \in Listings :
           fs_dirs' = [fs_dirs EXCEPT ![d] = Dir(TRUE, fs_clock, files)]
    /\ warm' = None
    /\ UNCHANGED <<fs_clock, fs_cache, pc, d_entries, ret, path>>
    /\ UNCHANGED <<tvars, uvars, avars>>

RemoveDir(d) ==
    /\ pc # "done"
    /\ fs_dirs[d].exists
    /\ fs_dirs' = [fs_dirs EXCEPT ![d] = AbsentDir]
    /\ warm' = None
    /\ UNCHANGED <<fs_clock, fs_cache, pc, d_entries, ret, path>>
    /\ UNCHANGED <<tvars, uvars, avars>>

Tick ==
    /\ pc # "done"
    /\ fs_clock < MaxTime
    /\ fs_clock' = fs_clock + 1
    /\ UNCHANGED <<fs_dirs, fs_cache, pc, d_entries, ret, warm, path>>
    /\ UNCHANGED <<tvars, uvars, avars>>

(***************************************************************************)
(* app_discovery.rs: get_entries, in the steps the file system can         *)
(* interleave with.  pc = "done" is the caller holding the result.         *)
(***************************************************************************)
NotRun == [kind |-> "none", val |-> <<>>]

\* What a get_entries call gave: its own result (kind is Ok, Err or Panic,
\* entries the list of an Ok), and the results of its two sources.
Result(fn, kind, list, desktop, windows) ==
    [fn |-> fn, kind |-> kind, entries |-> list, desktop |-> desktop,
     windows |-> windows]

NoResult == Result("none", "none", <<>>, NotRun, NotRun)

\* The test of get_desktop_entries_cached: a valid and non-empty cache.
cache_accepted(cache_data, dirs) ==
    is_valid(cache_data, dirs) /\ cache_data.entries # <<>>

\* get_desktop_entries_cached up to its validity check: Cache::new, load,
\* is_valid and the emptiness test.
CachedBegin ==
    /\ pc = "idle"
    /\ \E dir_ok \in BOOLEAN, read_ok \in BOOLEAN :
          LET cache_data == Cache_load(fs_cache, read_ok) IN
          IF ~dir_ok \/ cache_data.kind = "Err"
          THEN \* Cache::new()? or cache.load()? returns the error
               /\ ret' = Result("app_discovery", "Err", <<>>, Err("Io"), NotRun)
               /\ pc' = "done"
               /\ path' = "error"
               /\ UNCHANGED d_entries
          ELSE IF cache_accepted(cache_data.val, fs_dirs)
          THEN /\ d_entries' = cache_data.val.entries
               /\ pc' = "windows"
               /\ path' = "hit"
               /\ UNCHANGED ret
          ELSE /\ pc' = "rebuild"
               /\ path' = "miss"
               /\ UNCHANGED <<d_entries, ret>>
    /\ UNCHANGED <<fs_dirs, fs_clock, fs_cache, warm>>
    /\ UNCHANGED <<tvars, uvars, avars>>

\* get_desktop_entries(&app_dirs)
CachedRebuild ==
    /\ pc = "rebuild"
    /\ \E order \in CompletionOrders : d_entries' = get_desktop_entries(fs_dirs, order)
    /\ pc' = "save"
    /\ UNCHANGED <<fs_dirs, fs_clock, fs_cache, ret, warm, path>>
    /\ UNCHANGED <<tvars, uvars, avars>>

\* Cache::save: fs::write replaces the file, or fails leaving the old file
\* or a truncated one.
Cache_save(file, cache_data, outcome) ==
    CASE outcome = "written" -> CacheFile("data", cache_data)
      [] outcome = "failed" -> file
      [] outcome = "partial" -> CacheFile("corrupt", CacheData_new)

\* collect_directory_timestamps, cache.save and the return of the entries
CachedSave ==
    /\ pc = "save"
    /\ \E outcome \in {"written", "failed", "partial"} :
          LET new_cache_data == CacheData(d_entries, collect_directory_timestamps(fs_dirs)) IN
          /\ fs_cache' = Cache_save(fs_cache, new_cache_data, outcome)
          /\ warm' = IF outcome = "written" THEN Some(new_cache_data)
                     ELSE IF outcome = "failed" THEN warm ELSE None
          /\ path' = IF outcome = "written" THEN "saved" ELSE "unsaved"
    /\ pc' = "windows"
    /\ UNCHANGED <<fs_dirs, fs_clock, d_entries, ret>>
    /\ UNCHANGED <<tvars, uvars, avars>>

\* get_entries: get_window_entries()? and the return
get_entries(desktop, windows) ==
    IF windows.kind = "Err"
    THEN Result("app_discovery", "Err", <<>>, Ok(desktop), windows)
    ELSE Result("app_discovery", "Ok", desktop \o windows.val, Ok(desktop), windows)

GetWindows ==
    /\ pc = "windows"
    /\ \E niri \in NiriStates, windows \in WindowLists :
          ret' = get_entries(d_entries, get_window_entries(niri, windows))
    /\ pc' = "done"
    /\ d_entries' = <<>>
    /\ UNCHANGED <<fs_dirs, fs_clock, fs_cache, warm, path>>
    /\ UNCHANGED <<tvars, uvars, avars>>

(***************************************************************************)
(* main.rs: the component's own get_entries (no cache, unwrap on the       *)
(* compositor's answers)                                                   *)
(***************************************************************************)
main_parse_file(file) ==
    IF ~file.parses THEN None
    ELSE LET name == IF file.name = None THEN <<>> ELSE file.name[1]
         IN  IF name = <<>> THEN None
             ELSE Some(Entry(IF file.terminal THEN "Terminal" ELSE "Graphical",
                             IF file.exec = None THEN <<>> ELSE file.exec[1],
                             IF file.icon = None THEN "" ELSE file.icon[1],
                             name))

RECURSIVE main_parse_files(_)
main_parse_files(files) ==
    IF files = <<>> THEN <<>>
    ELSE main_parse_file(Head(files)) \o main_parse_files(Tail(files))

RECURSIVE main_desktop_entries(_, _)
main_desktop_entries(dirs, d) ==
    IF d > NumDirs THEN <<>>
    ELSE (IF dirs[d].exists THEN main_parse_files(dirs[d].files) ELSE <<>>)
         \o main_desktop_entries(dirs, d + 1)

\* The loop over the windows: Ok(entries), or Err when app_id.unwrap() panics.
RECURSIVE main_window_entries(_)
main_window_entries(windows) ==
    IF windows = <<>> THEN Ok(<<>>)
    ELSE LET window == Head(windows)
             rest == main_window_entries(Tail(windows))
         IN  IF window.app_id = None \/ rest.kind = "Err" THEN Err("unwrap")
             ELSE Ok(<<Entry("Window", to_string(window.id), window.app_id[1],
                             IF window.title = None THEN <<>> ELSE window.title[1])>>
                     \o rest.val)

main_get_entries(dirs, niri, windows) ==
    LET found == main_desktop_entries(dirs, 1)
        listed == IF niri = "bad_variant" THEN <<>> ELSE windows
        w == main_window_entries(listed)
    IN  IF niri \in {"down", "send_err", "niri_err"}
        THEN Result("main", "Panic", <<>>, Ok(found), Err("unwrap"))
        ELSE IF w.kind = "Err"
        THEN Result("main", "Panic", <<>>, Ok(found), Err("unwrap"))
        ELSE Result("main", "Ok", found \o w.val, Ok(found),
                    IF niri = "bad_variant" THEN Err("Unexpected response type") ELSE w)

MainGetEntries ==
    /\ pc = "idle"
    /\ \E niri \in NiriStates, windows \in WindowLists :
          ret' = main_get_entries(fs_dirs, niri, windows)
    /\ pc' = "done"
    /\ path' = "none"
    /\ UNCHANGED <<fs_dirs, fs_clock, fs_cache, d_entries, warm>>
    /\ UNCHANGED <<tvars, uvars, avars>>

\* The caller drops the result.
Return ==
    /\ pc = "done"
    /\ pc' = "idle"
    /\ ret' = NoResult
    /\ path' = "none"
    /\ UNCHANGED <<fs_dirs, fs_clock, fs_cache, d_entries, warm>>
    /\ UNCHANGED <<tvars, uvars, avars>>

CInit ==
    /\ fs_dirs \in [Dirs -> {AbsentDir, Dir(TRUE, 1, <<>>), Dir(TRUE, 1, <<FileFirefox>>)}]
    /\ fs_clock = 1
    /\ fs_cache = CacheFile("absent", CacheData_new)
    /\ pc = "idle"
    /\ d_entries = <<>>
    /\ ret = NoResult
    /\ warm = None
    /\ path = "none"

\* The cache and the discovery at rest, for the specifications of the other parts.
CIdle(dirs) ==
    /\ fs_dirs = dirs
    /\ fs_clock = 1
    /\ fs_cache = CacheFile("absent", CacheData_new)
    /\ pc = "idle"
    /\ d_entries = <<>>
    /\ ret = NoResult
    /\ warm = None
    /\ path = "none"

CNext ==
    \/ \E d \in Dirs : ModifyDir(d)
    \/ \E d \in Dirs : CreateDir(d)
    \/ \E d \in Dirs : RemoveDir(d)
    \/ Tick
    \/ CachedBegin
    \/ CachedRebuild
    \/ CachedSave
    \/ GetWindows
    \/ MainGetEntries
    \/ Return

Init ==
    /\ CInit
    /\ TIdle
    /\ UIdle
    /\ AIdle

Spec == Init /\ [][CNext]_vars

(***************************************************************************)
(* usage.rs                                                                *)
(***************************************************************************)
\* A u32 is two 16-bit limbs, hi * Limb + lo: the model checker's integers
\* stop short of the largest u32.
Limb == 65536

U32(n) == [hi |-> n \div Limb, lo |-> n % Limb]

U32_MAX == [hi |-> Limb - 1, lo |-> Limb - 1]

\* use_count += 1 on a u32: Some(sum), or None on overflow.
u32_checked_add_one(c) ==
    IF c.lo < Limb - 1 THEN Some([hi |-> c.hi, lo |-> c.lo + 1])
    ELSE IF c.hi < Limb - 1 THEN Some([hi |-> c.hi + 1, lo |-> 0])
    ELSE None

UsageStats(last_used, use_count) == [last_used |-> last_used, use_count |-> use_count]

UsageStats_new(timestamp) == UsageStats(timestamp, U32(1))

\* UsageStats::update. On overflow of use_count a build with overflow checks
\* panics after last_used was set, and one without wraps to 0.
UsageStats_update(self, timestamp, checks) ==
    LET sum == u32_checked_add_one(self.use_count) IN
    IF sum # None THEN [panic |-> FALSE, stats |-> UsageStats(timestamp, sum[1])]
    ELSE IF checks THEN [panic |-> TRUE, stats |-> UsageStats(timestamp, self.use_count)]
    ELSE [panic |-> FALSE, stats |-> UsageStats(timestamp, U32(0))]

\* The map of a tracker with the record of app_name set.
Insert(tracker, app_name, record) ==
    [n \in DOMAIN tracker \cup {app_name} |-> IF n = app_name THEN record ELSE tracker[n]]

UsageTracker_new == <<>>

get_stats(tracker, app_name) ==
    IF app_name \in DOMAIN tracker THEN Some(tracker[app_name]) ELSE None

\* UsageTracker::record_launch: the tracker after the call, and whether the
\* call panicked.
record_launch(tracker, app_name, timestamp, checks) ==
    IF get_stats(tracker, app_name) # None
    THEN LET u == UsageStats_update(tracker[app_name], timestamp, checks)
         IN  [panic |-> u.panic, tracker |-> Insert(tracker, app_name, u.stats)]
    ELSE [panic |-> FALSE, tracker |-> Insert(tracker, app_name, UsageStats_new(timestamp))]

\* ln(n) in millionths, for n >= 1: rounded down up to 8, and
\* ln 2 + ln(n div 2) above (a lower approximation, non-decreasing in n).
LnTable == <<0, 693147, 1098612, 1386294, 1609437, 1791759, 1945910, 2079441>>

RECURSIVE LnMicro(_)
LnMicro(n) ==
    IF n <= 8 THEN LnTable[n] ELSE 693147 + LnMicro(n \div 2)

\* (use_count as f64).ln() in millionths; ln(0) is -inf, kept as a large
\* negative number.
ln_use_count(c) ==
    IF c.hi = 0 /\ c.lo = 0 THEN -1000000000
    ELSE IF c.hi = 0 THEN LnMicro(c.lo)
    ELSE 16 * 693147 + LnMicro(c.hi)

recency_boost_rising_in_second_branch(age_seconds) ==
    IF age_seconds < 3600 THEN 1000000
    ELSE IF age_seconds < 86400 THEN 800000 + (age_seconds * 125) \div 54
    ELSE IF age_seconds < 604800 THEN 500000 + (300000 - (age_seconds * 125) \div 252)
    ELSE IF age_seconds < 2592000 THEN 200000 + (300000 - (age_seconds * 25) \div 216)
    ELSE 100000

\* The recency branch of calculate_boost, in millionths.
recency_boost(age_seconds) ==
    IF age_seconds < 3600 THEN 1000000
    ELSE IF age_seconds < 86400 THEN 800000 + (200000 - (age_seconds * 125) \div 54)
    ELSE IF age_seconds < 604800 THEN 500000 + (300000 - (age_seconds * 125) \div 252)
    ELSE IF age_seconds < 2592000 THEN 200000 + (300000 - (age_seconds * 25) \div 216)
    ELSE 100000

Min(a, b) == IF a < b THEN a ELSE b

saturating_sub(a, b) == IF a >= b THEN a - b ELSE 0

\* UsageTracker::calculate_boost at the time timestamp, in millionths.
calculate_boost(tracker, app_name, timestamp) ==
    IF get_stats(tracker, app_name) = None THEN 0
    ELSE LET stats_ == tracker[app_name]
             age_seconds == saturating_sub(timestamp, stats_.last_used)
             frequency_boost == Min(ln_use_count(stats_.use_count) \div 10, 1000000)
         IN  (recency_boost(age_seconds) * 7 + frequency_boost * 3) \div 10

(***************************************************************************)
(* The fuzzy matcher (fuzzy_matcher::skim::SkimMatcherV2, an external      *)
(* crate): a score when the pattern is a subsequence of the choice, with   *)
(* smart case.  The score is that of the leftmost alignment with the       *)
(* crate's default weights; the crate searches the best alignment.         *)
(***************************************************************************)
LowerOf == [c \in {"F", "V", "T", "X"} |->
               CASE c = "F" -> "f" [] c = "V" -> "v" [] c = "T" -> "t" [] c = "X" -> "x"]

is_uppercase(c) == c \in DOMAIN LowerOf

to_lowercase(c) == IF is_uppercase(c) THEN LowerOf[c] ELSE c

char_equal(c, p, case_sensitive) ==
    IF case_sensitive THEN c = p ELSE to_lowercase(c) = to_lowercase(p)

\* The first index from i on where choice holds the pattern character, or 0.
RECURSIVE find_from(_, _, _, _)
find_from(choice, p, i, case_sensitive) ==
    IF i > Len(choice) THEN 0
    ELSE IF char_equal(choice[i], p, case_sensitive) THEN i
    ELSE find_from(choice, p, i + 1, case_sensitive)

\* The leftmost alignment: the index matched by each pattern character, 0
\* from the first one that has none.
RECURSIVE align(_, _, _, _, _)
align(choice, pattern, j, i, case_sensitive) ==
    IF j > Len(pattern) THEN <<>>
    ELSE LET k == find_from(choice, pattern[j], i, case_sensitive)
         IN  IF k = 0 THEN <<0>>
             ELSE <<k>> \o align(choice, pattern, j + 1, k + 1, case_sensitive)

RECURSIVE align_score(_, _, _, _)
align_score(choice, pattern, pos, j) ==
    IF j > Len(pattern) THEN 0
    ELSE LET gap == IF j = 1 THEN pos[1] - 1 ELSE pos[j] - pos[j - 1] - 1
         IN  16
             + (IF pos[j] = 1 THEN 16 ELSE 0)
             + (IF j > 1 /\ gap = 0 THEN 4 ELSE 0)
             - (IF gap > 0 THEN 3 + (gap - 1) ELSE 0)
             - (IF choice[pos[j]] # pattern[j] THEN 2 ELSE 0)
             + align_score(choice, pattern, pos, j + 1)

\* matcher.fuzzy_match(choice, pattern): Some(score) or None
fuzzy_match(choice, pattern) ==
    LET case_sensitive == \E j \in 1..Len(pattern) : is_uppercase(pattern[j])
        pos == align(choice, pattern, 1, 1, case_sensitive)
    IN  IF \E j \in 1..Len(pos) : pos[j] = 0 THEN None
        ELSE Some(align_score(choice, pattern, pos, 1))

(***************************************************************************)
(* main.rs: App                                                            *)
(***************************************************************************)
EntryView(entry, selected) == [entry |-> entry, selected |-> selected]

\* The rows with the one at index (0-based) sent the message selected.
send(rows, index, selected) ==
    [i \in 1..Len(rows) |-> IF i = index + 1 THEN EntryView(rows[i].entry, selected) ELSE rows[i]]

\* Vec::sort_by(|a, b| b.0.cmp(&a.0)): a stable sort, highest score first.
RECURSIVE insert_by_score(_, _)
insert_by_score(sorted, x) ==
    IF sorted = <<>> THEN <<x>>
    ELSE IF Head(sorted)[1] >= x[1] THEN <<Head(sorted)>> \o insert_by_score(Tail(sorted), x)
    ELSE <<x>> \o sorted

RECURSIVE sort_by_score(_, _)
sort_by_score(sorted, rest) ==
    IF rest = <<>> THEN sorted
    ELSE sort_by_score(insert_by_score(sorted, Head(rest)), Tail(rest))

RECURSIVE scored_entries_keep_unmatched(_, _)
scored_entries_keep_unmatched(all, query) ==
    IF all = <<>> THEN <<>>
    ELSE LET score == fuzzy_match(Head(all).name, query)
         IN  << <<IF score = None THEN 0 ELSE score[1], Head(all)>> >>
             \o scored_entries_keep_unmatched(Tail(all), query)

RECURSIVE scored_entries(_, _)
scored_entries(all, query) ==
    IF all = <<>> THEN <<>>
    ELSE LET score == fuzzy_match(Head(all).name, query)
         IN  (IF score = None THEN <<>> ELSE << <<score[1], Head(all)>> >>)
             \o scored_entries(Tail(all), query)

\* The entries filter_entries pushes to the factory, in order.
filtered(all, query) ==
    IF query = <<>> THEN all
    ELSE LET sorted == sort_by_score(<<>>, scored_entries(all, query))
         IN  [i \in 1..Len(sorted) |-> sorted[i][2]]

\* filter_entries without the message that selects the first row.
filter_entries_first_row_unselected(all, query) ==
    LET shown == filtered(all, query)
        rows == [i \in 1..Len(shown) |-> EntryView(shown[i], FALSE)]
    IN  [entries |-> rows,
         selected_index |-> 0,
         selected_name |-> IF rows = <<>> THEN <<>> ELSE shown[1].name]

\* App::filter_entries: the rows, selected_index and selected_name after it.
filter_entries(all, query) ==
    LET shown == filtered(all, query)
        rows == [i \in 1..Len(shown) |-> EntryView(shown[i], FALSE)]
    IN  [entries |-> IF rows = <<>> THEN rows ELSE send(rows, 0, TRUE),
         selected_index |-> 0,
         selected_name |-> IF rows = <<>> THEN <<>> ELSE shown[1].name]

(***************************************************************************)
(* Launching: app_discovery::launch_entry and Msg::SelectEntry of main.rs  *)
(***************************************************************************)
DigitValue == [c \in {"0", "1", "2", "3", "4", "5", "6", "7", "8", "9"} |->
                 CHOOSE v \in 0..9 : Digit[v + 1] = c]

RECURSIVE digits_value(_, _)
digits_value(s, acc) ==
    IF s = <<>> THEN acc ELSE digits_value(Tail(s), acc * 10 + DigitValue[Head(s)])

\* str::parse::<u64>: an optional '+', then one or more decimal digits.
\* (Strings of the model are short: the value never exceeds a u64.)
parse_u64(s) ==
    LET digits == IF s # <<>> /\ Head(s) = "+" THEN Tail(s) ELSE s
    IN  IF digits = <<>> THEN None
        ELSE IF \E i \in 1..Len(digits) : digits[i] \notin DOMAIN DigitValue THEN None
        ELSE Some(digits_value(digits, 0))

\* str::split_whitespace: the non-empty runs of non-blank characters.
RECURSIVE split_whitespace(_, _)
split_whitespace(s, word) ==
    IF s = <<>> THEN (IF word = <<>> THEN <<>> ELSE <<word>>)
    ELSE IF Head(s) = " "
    THEN (IF word = <<>> THEN <<>> ELSE <<word>>) \o split_whitespace(Tail(s), <<>>)
    ELSE split_whitespace(Tail(s), Append(word, Head(s)))

RECURSIVE without_field_codes(_)
without_field_codes(words) ==
    IF words = <<>> THEN <<>>
    ELSE (IF \E i \in 1..Len(Head(words)) : Head(words)[i] = "%" THEN <<>> ELSE <<Head(words)>>)
         \o without_field_codes(Tail(words))

Spawn(command) == [action |-> "Spawn", command |-> command, id |-> 0]
FocusWindow(id) == [action |-> "FocusWindow", command |-> <<>>, id |-> id]

\* What a dispatch did: the entry, whether a socket was connected, the
\* request sent if any, and the outcome (Ok, an error kind, or Panic).
Dispatch(fn, entry, connected, sent, result) ==
    [fn |-> fn, entry |-> entry, connected |-> connected, sent |-> sent, result |-> result]

\* The request of an entry: Ok(request), or Err when exec is no window id.
request_of(entry) ==
    CASE entry.open_type = "Terminal" ->
            Ok(Spawn(<< <<"g","h","o","s","t","t","y">>, <<"-","c">>, entry.exec >>))
      [] entry.open_type = "Graphical" ->
            Ok(Spawn(without_field_codes(split_whitespace(entry.exec, <<>>))))
      [] entry.open_type = "Window" ->
            IF parse_u64(entry.exec) = None THEN Err("ParseInt")
            ELSE Ok(FocusWindow(parse_u64(entry.exec)[1]))

\* app_discovery::launch_entry: the socket is connected first, then the
\* request is built and sent.
launch_entry(entry, niri) ==
    IF niri = "down" THEN Dispatch("launch_entry", entry, FALSE, None, "NiriConnection")
    ELSE LET request == request_of(entry) IN
         IF request.kind = "Err" THEN Dispatch("launch_entry", entry, TRUE, None, "ParseInt")
         ELSE IF niri = "send_err" THEN Dispatch("launch_entry", entry, TRUE, None, "NiriRequest")
         ELSE IF niri = "niri_err"
         THEN Dispatch("launch_entry", entry, TRUE, Some(request.val), "NiriRequest")
         ELSE Dispatch("launch_entry", entry, TRUE, Some(request.val), "Ok")

\* Msg::SelectEntry: the same dispatch with every failure unwrapped.
select_entry(entry, niri) ==
    IF niri = "down" THEN Dispatch("SelectEntry", entry, FALSE, None, "Panic")
    ELSE LET request == request_of(entry) IN
         IF request.kind = "Err" THEN Dispatch("SelectEntry", entry, TRUE, None, "Panic")
         ELSE IF niri = "send_err" THEN Dispatch("SelectEntry", entry, TRUE, None, "Panic")
         ELSE IF niri = "niri_err"
         THEN Dispatch("SelectEntry", entry, TRUE, Some(request.val), "Panic")
         ELSE Dispatch("SelectEntry", entry, TRUE, Some(request.val), "Ok")

(***************************************************************************)
(* SpecUsage: the tracker under record_launch calls and clock changes      *)
(***************************************************************************)
MaxLaunches == 3    \* record_launch calls in a behaviour

ClockValues == { 1700000000 + o : o \in {0, 60, 3600, 86400, 604800, 2592000} }

\* The trackers UsageTracker::load can hand out: any map the file decodes to.
LoadedTrackers ==
    { UsageTracker_new,
      [n \in {<<"F","x">>} |-> UsageStats(1700000000, U32(1))],
      [n \in {<<"F","x">>, <<"V","i">>} |->
          IF n = <<"F","x">> THEN UsageStats(1700000060, U32(65535))
          ELSE UsageStats(1700000000, [hi |-> Limb - 1, lo |-> Limb - 2])] }

\* UsageTracker::load: Ok(tracker) or Err.
UsageTracker_load(file, path_ok, read_ok) ==
    IF ~path_ok THEN Err("Io")
    ELSE IF file.kind = "absent" THEN Ok(UsageTracker_new)
    ELSE IF ~read_ok THEN Err("Io")
    ELSE IF file.kind = "corrupt" THEN Err("Io")
    ELSE Ok(file.data)

\* UsageTracker::save: fs::write replaces the file, or fails leaving the old
\* file or a truncated one.
UsageTracker_save(file, tracker, outcome) ==
    CASE outcome = "written" -> UsageFile("data", tracker)
      [] outcome = "failed" -> file
      [] outcome = "partial" -> UsageFile("corrupt", <<>>)

\* The launcher starts: UsageTracker::load().
Load(path_ok, read_ok) ==
    /\ u_status = "start"
    /\ LET loaded == UsageTracker_load(u_file, path_ok, read_ok) IN
          IF loaded.kind = "Err"
          THEN /\ u_status' = "load_err"
               /\ UNCHANGED stats
          ELSE /\ u_status' = "ok"
               /\ stats' = loaded.val
    /\ UNCHANGED <<now, overflow_checks, u_total, u_name, u_hist, b_result, u_file, cvars, avars>>

\* UsageTracker::save()
Save(outcome) ==
    /\ u_status = "ok"
    /\ u_file' = UsageTracker_save(u_file, stats, outcome)
    /\ UNCHANGED <<stats, now, overflow_checks, u_status, u_total, u_name, u_hist, b_result,
                   cvars, avars>>

\* The process ends (its tracker is dropped) and the launcher is started again.
Restart ==
    /\ u_status # "start"
    /\ u_status' = "start"
    /\ stats' = UsageTracker_new
    /\ u_name' = <<>>
    /\ u_hist' = [n \in AppNames |-> None]
    /\ UNCHANGED <<now, overflow_checks, u_total, b_result, u_file, cvars, avars>>

RecordLaunch(app_name) ==
    /\ u_status = "ok"
    /\ u_total < MaxLaunches
    /\ LET r == record_launch(stats, app_name, now, overflow_checks) IN
          /\ stats' = r.tracker
          /\ u_status' = IF r.panic THEN "panicked" ELSE "ok"
          /\ u_hist' = [u_hist EXCEPT ![app_name] =
                          IF app_name \notin DOMAIN stats THEN Some(<<1, now>>)
                          ELSE IF @ = None THEN None
                          ELSE Some(<<@[1][1] + 1, now>>)]
    /\ u_total' = u_total + 1
    /\ u_name' = app_name
    /\ UNCHANGED <<now, overflow_checks, b_result, u_file, cvars, avars>>

\* The system clock moves, forwards or (when it is set) backwards.
SetClock(t) ==
    /\ u_status = "ok"
    /\ t # now
    /\ now' = t
    /\ UNCHANGED <<stats, overflow_checks, uvars, cvars, avars>>

UInit ==
    /\ stats = UsageTracker_new
    /\ now = 1700000000
    /\ overflow_checks \in BOOLEAN
    /\ u_file \in {UsageFile("absent", <<>>), UsageFile("corrupt", <<>>)}
                  \cup { UsageFile("data", tracker) : tracker \in LoadedTrackers }
    /\ u_status = "start"
    /\ u_total = 0
    /\ u_name = <<>>
    /\ u_hist = [n \in AppNames |-> None]
    /\ b_result = [n \in AppNames |-> 0]
    /\ CIdle([d \in Dirs |-> AbsentDir])
    /\ AIdle

UNext ==
    \/ \E path_ok \in BOOLEAN, read_ok \in BOOLEAN : Load(path_ok, read_ok)
    \/ \E outcome \in {"written", "failed", "partial"} : Save(outcome)
    \/ Restart
    \/ \E app_name \in AppNames : RecordLaunch(app_name)
    \/ \E t \in ClockValues : SetClock(t)

SpecUsage == UInit /\ [][UNext]_vars

(***************************************************************************)
(* SpecApp: the component of main.rs, and app_discovery::launch_entry      *)
(***************************************************************************)
FileFiles == DesktopFile(TRUE, Some(<<"f","i">>), Some(<<"f","i"," ","%","U">>), Some("b.png"), FALSE)

\* The directories the component finds.
AppDirStates ==
    { [d \in Dirs |-> IF d = 1 THEN Dir(TRUE, 1, <<FileFirefox, FileFiles>>)
                      ELSE Dir(TRUE, 1, <<FileMalformed, FileVim, FileEmptyName, FileNoName>>)],
      [d \in Dirs |-> IF d = 1 THEN Dir(TRUE, 1, <<FileFiles, FileVim>>) ELSE AbsentDir],
      [d \in Dirs |-> AbsentDir] }

\* The trackers the usage file can hold when the component starts; every
\* record is older than the clock of the behaviour.
AppTrackers ==
    { UsageTracker_new,
      [n \in {<<"F","x">>} |-> UsageStats(1700000000 - 60, U32(3))],
      [n \in {<<"V","i">>, <<"T","m">>} |-> UsageStats(1700000000 - 90000, U32(1))] }

Queries == { <<>>, <<"f">>, <<"i">>, <<"f","x">>, <<"F">>, <<"x">> }

LaunchStates == {"up", "down", "send_err", "niri_err"}

\* The entries launch_entry is called with.
LaunchPool ==
    { Entry("Window", <<"a","b","c">>, "x", <<"T","m">>),
      Entry("Window", <<"4","2">>, "x", <<"T","m">>),
      Entry("Graphical", <<"f","x"," ","%","u">>, "firefox", <<"F","x">>),
      Entry("Terminal", <<"v","i">>, "vim", <<"V","i">>) }

\* The rows a list of entries makes, the first one selected.
rows_of(list) ==
    LET rows == [i \in 1..Len(list) |-> EntryView(list[i], FALSE)]
    IN  IF rows = <<>> THEN rows ELSE send(rows, 0, TRUE)

\* App::init: get_entries(), the rows, the first one selected.
AppInit ==
    /\ a_status = "starting"
    /\ \E niri \in NiriStates, windows \in WindowLists :
          LET app_entries == main_get_entries(fs_dirs, niri, windows) IN
          IF app_entries.kind = "Panic"
          THEN /\ a_status' = "panicked"
               /\ UNCHANGED <<all_entries, entries, selected_name>>
          ELSE /\ a_status' = "running"
               /\ all_entries' = app_entries.entries
               /\ entries' = rows_of(app_entries.entries)
               /\ selected_name' = IF app_entries.entries = <<>> THEN <<>>
                                   ELSE app_entries.entries[1].name
    /\ UNCHANGED <<selected_index, search_query, visible, last, cvars, tvars, uvars>>

NavigateUp ==
    /\ a_status = "running"
    /\ LET entries_len == Len(entries)
           index == IF selected_index = 0 THEN entries_len - 1 ELSE selected_index - 1
       IN  IF entries_len > 0
           THEN /\ selected_index' = index
                /\ entries' = send(send(entries, selected_index, FALSE), index, TRUE)
                /\ selected_name' = IF index < entries_len THEN entries[index + 1].entry.name
                                    ELSE selected_name
           ELSE UNCHANGED <<selected_index, entries, selected_name>>
    /\ UNCHANGED <<a_status, all_entries, search_query, visible, last, cvars, tvars, uvars>>

NavigateDown ==
    /\ a_status = "running"
    /\ LET entries_len == Len(entries)
           index == IF entries_len > 0 THEN (selected_index + 1) % entries_len ELSE 0
       IN  IF entries_len > 0
           THEN /\ selected_index' = index
                /\ entries' = send(send(entries, selected_index, FALSE), index, TRUE)
                /\ selected_name' = IF index < entries_len THEN entries[index + 1].entry.name
                                    ELSE selected_name
           ELSE UNCHANGED <<selected_index, entries, selected_name>>
    /\ UNCHANGED <<a_status, all_entries, search_query, visible, last, cvars, tvars, uvars>>

\* Msg::SelectEntry, and the Msg::CloseWindow it sends itself on success.
SelectEntry ==
    /\ a_status = "running"
    /\ IF selected_index < Len(entries)
       THEN \E niri \in LaunchStates :
               LET d == select_entry(entries[selected_index + 1].entry, niri) IN
               /\ last' = d
               /\ a_status' = IF d.result = "Panic" THEN "panicked" ELSE "running"
               /\ visible' = IF d.result = "Panic" THEN visible ELSE FALSE
       ELSE UNCHANGED <<last, a_status, visible>>
    /\ UNCHANGED <<all_entries, entries, selected_index, selected_name, search_query,
                   cvars, tvars, uvars>>

CloseWindow ==
    /\ a_status = "running"
    /\ visible' = FALSE
    /\ UNCHANGED <<a_status, all_entries, entries, selected_index, selected_name,
                   search_query, last, cvars, tvars, uvars>>

SearchChanged(query) ==
    /\ a_status = "running"
    /\ search_query' = query
    /\ LET f == filter_entries(all_entries, query) IN
          /\ entries' = f.entries
          /\ selected_index' = f.selected_index
          /\ selected_name' = f.selected_name
    /\ UNCHANGED <<a_status, all_entries, visible, last, cvars, tvars, uvars>>

\* The window is shown: Msg::WindowShown reloads the entries.
WindowShown ==
    /\ a_status = "running"
    /\ ~visible
    /\ visible' = TRUE
    /\ \E niri \in NiriStates, windows \in WindowLists :
          LET r == main_get_entries(fs_dirs, niri, windows) IN
          IF r.kind = "Panic"
          THEN /\ a_status' = "panicked"
               /\ UNCHANGED <<all_entries, search_query, entries, selected_index, selected_name>>
          ELSE LET f == filter_entries(r.entries, <<>>) IN
               /\ a_status' = "running"
               /\ all_entries' = r.entries
               /\ search_query' = <<>>
               /\ entries' = f.entries
               /\ selected_index' = f.selected_index
               /\ selected_name' = f.selected_name
    /\ UNCHANGED <<last, cvars, tvars, uvars>>

\* A caller of app_discovery::launch_entry.
LaunchEntry(entry) ==
    /\ a_status # "panicked"
    /\ \E niri \in LaunchStates : last' = launch_entry(entry, niri)
    /\ UNCHANGED <<a_status, all_entries, entries, selected_index, selected_name,
                   search_query, visible, cvars, tvars, uvars>>

AInit ==
    /\ \E dirs \in AppDirStates : CIdle(dirs)
    /\ stats \in AppTrackers
    /\ now = 1700000000
    /\ overflow_checks = FALSE
    /\ UIdle
    /\ AIdle

ANext ==
    \/ AppInit
    \/ NavigateUp
    \/ NavigateDown
    \/ SelectEntry
    \/ CloseWindow
    \/ \E query \in Queries : SearchChanged(query)
    \/ WindowShown
    \/ \E entry \in LaunchPool : LaunchEntry(entry)

SpecApp == AInit /\ [][ANext]_vars

(***************************************************************************)
(* SpecBoost: calculate_boost over the records a tracker can hold          *)
(***************************************************************************)
\* Ages around every branch boundary of the recency function.
BoostAges == { 0, 1, 3599, 3600, 3601, 86399, 86400, 86401,
               604799, 604800, 604801, 2591999, 2592000, 2592001 }

BoostClock == { 1700000000 + a : a \in BoostAges }

\* use_count values: 0 and 1, around e^10 (where ln / 10 reaches 1.0), and
\* the largest u32.
BoostCounts == { U32(0), U32(1), U32(2), U32(9), U32(22026), U32(22027), U32(65535),
                 [hi |-> 1, lo |-> 0], U32_MAX }

\* The trackers the usage file decodes to: one record, last used at the
\* start of the clock or two minutes after it.
BoostTrackers ==
    { [n \in {<<"F","x">>} |-> UsageStats(t, c)] :
          t \in {1700000000, 1700000120}, c \in BoostCounts }

\* calculate_boost of every name a row is ranked by.
boosts(tracker, timestamp) ==
    [n \in AppNames |-> calculate_boost(tracker, n, timestamp)]

\* Time passes, and the boosts are calculated at the new time.
Elapse(t) ==
    /\ t # now
    /\ now' = t
    /\ b_result' = boosts(stats, t)
    /\ UNCHANGED <<stats, overflow_checks, u_status, u_total, u_name, u_hist, u_file, cvars, avars>>

\* UsageTracker::load of a rewritten usage file, and the boosts of its records.
LoadUsage(tracker) ==
    /\ tracker # stats
    /\ u_file' = UsageFile("data", tracker)
    /\ stats' = tracker
    /\ b_result' = boosts(tracker, now)
    /\ UNCHANGED <<now, overflow_checks, u_status, u_total, u_name, u_hist, cvars, avars>>

BInit ==
    /\ stats \in BoostTrackers
    /\ now = 1700000000
    /\ overflow_checks = FALSE
    /\ u_status = "ok"
    /\ u_total = 0
    /\ u_name = <<>>
    /\ u_hist = [n \in AppNames |-> None]
    /\ u_file = UsageFile("data", stats)
    /\ b_result = boosts(stats, now)
    /\ CIdle([d \in Dirs |-> AbsentDir])
    /\ AIdle

BNext ==
    \/ \E t \in BoostClock : Elapse(t)
    \/ \E tracker \in BoostTrackers : LoadUsage(tracker)

SpecBoost == BInit /\ [][BNext]_vars

(***************************************************************************)
(* Claims about discovery and the cache, checked under Spec                *)
(***************************************************************************)

\* C1: whenever desktop-entry discovery succeeds and the Window Enumerator
\* fails, get_entries still returns the desktop entries (it neither returns
\* an error nor aborts).
C1_DegradesGracefully ==
    (ret.desktop.kind = "Ok" /\ ret.windows.kind = "Err")
        => (ret.kind = "Ok" /\ ret.entries = ret.desktop.val)

\* The CacheData values the validity claims range over: no entry or one,
\* and every partial map from the directories to modification times.
CacheDatas ==
    { CacheData(e, ts) :
        e \in {<<>>, <<Entry("Graphical", <<"x">>, "i", <<"X">>)>>},
        ts \in UNION { [S -> Times] : S \in SUBSET Dirs } }

\* C2 (as claimed): a CacheData is accepted iff every canonical directory has
\* a stored timestamp equal to its current modification time and the entry
\* list is non-empty.
C2_AcceptedIffEveryDirectoryMatches ==
    \A cd \in CacheDatas \cup {fs_cache.data} :
        cache_accepted(cd, fs_dirs)
            <=> /\ \A d \in Dirs :
                     /\ fs_dirs[d].exists
                     /\ d \in DOMAIN cd.directory_timestamps
                     /\ cd.directory_timestamps[d] = fs_dirs[d].mtime
                /\ cd.entries # <<>>

\* C2 (amended): a CacheData is accepted iff every canonical directory that
\* exists on disk has a stored timestamp equal to its current modification
\* time and the entry list is non-empty; a directory that does not exist is
\* ignored, stored or not.
C2_AcceptedIffEveryExistingDirectoryMatches ==
    \A cd \in CacheDatas \cup {fs_cache.data} :
        cache_accepted(cd, fs_dirs)
            <=> /\ \A d \in Dirs :
                     fs_dirs[d].exists
                        => /\ d \in DOMAIN cd.directory_timestamps
                           /\ cd.directory_timestamps[d] = fs_dirs[d].mtime
                /\ cd.entries # <<>>

\* A call accepted the saved cache while one canonical directory does not
\* exist and another exists with its stored timestamp.
C2_Witness ==
    /\ path = "hit"
    /\ pc = "windows"
    /\ fs_cache.kind = "data"
    /\ \E d \in Dirs : ~fs_dirs[d].exists
    /\ \E d \in Dirs : fs_dirs[d].exists /\ d \in DOMAIN fs_cache.data.directory_timestamps

\* C3: get_desktop_entries_cached never returns an error to its caller.
C3_NeverReturnsError ==
    ret.fn = "app_discovery" => ret.desktop.kind # "Err"

\* The names a rebuild is to yield: per directory in order, the names of the
\* files that parse and carry a non-empty name.
RECURSIVE NamesOfFiles(_)
NamesOfFiles(files) ==
    IF files = <<>> THEN <<>>
    ELSE LET f == Head(files)
         IN  (IF f.parses /\ f.name # <<>> /\ f.name # <<<<>>>> THEN f.name ELSE <<>>)
             \o NamesOfFiles(Tail(files))

RECURSIVE NamesOfDirs(_, _)
NamesOfDirs(dirs, d) ==
    IF d > NumDirs THEN <<>>
    ELSE (IF dirs[d].exists THEN NamesOfFiles(dirs[d].files) ELSE <<>>)
         \o NamesOfDirs(dirs, d + 1)

\* The load and the check of a call went through (no error was returned).
Checked == pc = "idle" /\ pc' \in {"rebuild", "windows"}

\* C4 (as claimed): after a call that rebuilt and saved successfully, the
\* next call with unmodified directories returns the saved entries without
\* parsing any file.
C4_WarmAfterEverySave ==
    [][ (Checked /\ warm # None)
            => (pc' = "windows" /\ d_entries' = warm[1].entries) ]_vars

\* C4 (amended): after a call that rebuilt at least one entry and saved
\* successfully, the next call with unmodified directories returns the saved
\* entries without parsing; a call whose check fails rebuilds from the
\* directories and, when its save succeeds, the cache file holds exactly the
\* rebuilt entries and the timestamps of the directories then on disk.
C4_WarmAfterNonEmptySave ==
    [][ /\ (Checked /\ warm # None /\ warm[1].entries # <<>>)
            => (pc' = "windows" /\ path' = "hit" /\ d_entries' = warm[1].entries)
        /\ (Checked /\ path' = "miss") => pc' = "rebuild"
        /\ (pc = "rebuild" /\ pc' = "save")
            => [i \in 1..Len(d_entries') |-> d_entries'[i].name] = NamesOfDirs(fs_dirs, 1)
        /\ (pc = "save" /\ path' = "saved")
            => fs_cache' = CacheFile("data",
                   CacheData(d_entries,
                       [d \in {x \in Dirs : fs_dirs[x].exists} |-> fs_dirs[d].mtime])) ]_vars

\* A call returned the entries of a warm, non-empty cache without rebuilding.
C4_Witness ==
    /\ path = "hit"
    /\ pc = "windows"
    /\ warm # None
    /\ d_entries = warm[1].entries
    /\ d_entries # <<>>

(***************************************************************************)
(* Claims about launching and ranking, checked under SpecApp               *)
(***************************************************************************)
\* C5: usage is recorded exactly on successful non-Window launches: a
\* SelectEntry that dispatches a Graphical or Terminal entry successfully
\* leaves the tracker as record_launch of the entry's name makes it, and any
\* other dispatch leaves the tracker as it was.
C5_UsageRecordedOnSuccessfulLaunch ==
    [][(SelectEntry /\ selected_index < Len(entries)) =>
          IF last'.result = "Ok" /\ last'.entry.open_type # "Window"
          THEN stats' = record_launch(stats, last'.entry.name, now, overflow_checks).tracker
          ELSE stats' = stats]_vars

\* C6: a launch of a Window entry whose exec is no unsigned 64-bit integer
\* ends in a parse error with no socket connected and no request sent,
\* whatever the compositor's state.
C6_BadWindowIdNeverTouchesIpc ==
    (last.fn # "none" /\ last.entry.open_type = "Window" /\ parse_u64(last.entry.exec) = None)
        => (last.result = "ParseInt" /\ ~last.connected /\ last.sent = None)

\* The entries on display, in order.
Shown == [i \in 1..Len(entries) |-> entries[i].entry]

BoostOf(e) == calculate_boost(stats, e.name, now)

\* fuzzy_score * (1 + boost * 0.5), in units of a two-millionth.
CombinedOf(e, query) == fuzzy_match(e.name, query)[1] * (2000000 + BoostOf(e))

\* C7: with an empty query the list on display is the candidate list sorted by
\* descending usage boost, candidates of equal boost in their input order.
C7_EmptyQuerySortedByBoost ==
    (a_status = "running" /\ search_query = <<>>) =>
        LET n == Len(all_entries)
            rank(i) == 1 + Cardinality({ j \in 1..n :
                              \/ BoostOf(all_entries[j]) > BoostOf(all_entries[i])
                              \/ (BoostOf(all_entries[j]) = BoostOf(all_entries[i]) /\ j < i) })
        IN  /\ Len(Shown) = n
            /\ \A i \in 1..n : Shown[rank(i)] = all_entries[i]

\* The number of times e occurs in list.
Occurrences(list, e) == Cardinality({ i \in 1..Len(list) : list[i] = e })

\* C8: with a non-empty query a candidate is on display (as often as it is a
\* candidate) if and only if the matcher yields a score for its name, whatever
\* the usage history holds.
C8_ShownIffMatched ==
    (a_status = "running" /\ search_query # <<>>) =>
        /\ \A i \in 1..Len(all_entries) :
              Occurrences(Shown, all_entries[i]) =
                 IF fuzzy_match(all_entries[i].name, search_query) # None
                 THEN Occurrences(all_entries, all_entries[i]) ELSE 0
        /\ \A i \in 1..Len(Shown) : Occurrences(all_entries, Shown[i]) > 0

\* A query is typed that a used candidate does not match and an unused one
\* does: the first is hidden, the second on display.
C8_Witness ==
    /\ a_status = "running"
    /\ search_query # <<>>
    /\ \E i, j \in 1..Len(all_entries) :
          /\ all_entries[i].name \in DOMAIN stats
          /\ fuzzy_match(all_entries[i].name, search_query) = None
          /\ Occurrences(Shown, all_entries[i]) = 0
          /\ all_entries[j].name \notin DOMAIN stats
          /\ Occurrences(Shown, all_entries[j]) = 1

\* C9: with a non-empty query the matched candidates are on display by
\* descending combined score fuzzy * (1 + boost * 0.5), candidates of equal
\* combined score in their input order.
C9_MatchedSortedByCombinedScore ==
    (a_status = "running" /\ search_query # <<>>) =>
        LET matched == { i \in 1..Len(all_entries) :
                            fuzzy_match(all_entries[i].name, search_query) # None }
            rank(i) == 1 + Cardinality({ j \in matched :
                              \/ CombinedOf(all_entries[j], search_query)
                                    > CombinedOf(all_entries[i], search_query)
                              \/ (CombinedOf(all_entries[j], search_query)
                                    = CombinedOf(all_entries[i], search_query) /\ j < i) })
        IN  /\ Len(Shown) = Cardinality(matched)
            /\ \A i \in matched : Shown[rank(i)] = all_entries[i]

(***************************************************************************)
(* Claims about the tracker, checked under SpecUsage                       *)
(***************************************************************************)
\* c + 1 as a number: the limbs of the sum, hi = Limb standing for 2^32.
PlusOne(c) == IF c.lo < Limb - 1 THEN [hi |-> c.hi, lo |-> c.lo + 1]
              ELSE [hi |-> c.hi + 1, lo |-> 0]

\* C10: record_launch(name) inserts a record with use_count 1 and last_used
\* now when the name is absent, and otherwise adds one to use_count and sets
\* last_used to now; the call returns, and the records of all other names are
\* unchanged.
C10_RecordLaunchInsertsOrIncrements ==
    [][\A app_name \in AppNames : RecordLaunch(app_name) =>
          /\ u_status' = "ok"
          /\ app_name \in DOMAIN stats'
          /\ stats'[app_name].last_used = now
          /\ stats'[app_name].use_count =
                IF app_name \in DOMAIN stats THEN PlusOne(stats[app_name].use_count) ELSE U32(1)
          /\ DOMAIN stats' = DOMAIN stats \cup {app_name}
          /\ \A n \in DOMAIN stats \ {app_name} : stats'[n] = stats[n]]_vars

\* a <= b for two u32 values.
U32Leq(a, b) == a.hi < b.hi \/ (a.hi = b.hi /\ a.lo <= b.lo)

\* C11: every record has use_count >= 1 after a record_launch, and no
\* record_launch lowers the use_count of a record, the largest u32 included.
C11_UseCountAtLeastOneAndNeverLowered ==
    [][\A app_name \in AppNames : RecordLaunch(app_name) =>
          /\ \A n \in DOMAIN stats' : U32Leq(U32(1), stats'[n].use_count)
          /\ \A n \in DOMAIN stats : U32Leq(stats[n].use_count, stats'[n].use_count)]_vars

(***************************************************************************)
(* Claims about calculate_boost, checked under SpecBoost                   *)
(***************************************************************************)
\* C12: calculate_boost returns 0.0 for a name with no record, and a boost in
\* [0.0, 1.0] for every record, whatever its last_used (later than now
\* included) and its use_count.
C12_BoostInUnitInterval ==
    \A n \in AppNames :
        /\ n \notin DOMAIN stats => b_result[n] = 0
        /\ 0 <= b_result[n]
        /\ b_result[n] <= 1000000

\* now - last_used of a record, negative when last_used is later than now.
AgeOf(tracker, n, timestamp) == timestamp - tracker[n].last_used

\* C13: for a fixed use_count the boost does not rise when the age rises, and
\* for a fixed age it does not fall when the use_count rises.
C13_BoostMonotone ==
    [][\A n \in DOMAIN stats \cap DOMAIN stats' :
          /\ (stats'[n].use_count = stats[n].use_count
                /\ AgeOf(stats', n, now') >= AgeOf(stats, n, now))
                => b_result'[n] <= b_result[n]
          /\ (AgeOf(stats', n, now') = AgeOf(stats, n, now)
                /\ U32Leq(stats[n].use_count, stats'[n].use_count))
                => b_result'[n] >= b_result[n]]_vars

\* The boost was calculated on both sides of the boundary at one hour, and
\* for a count of 1 and a count above e^10 at one age.
C13_Witness ==
    \E n \in DOMAIN stats :
        /\ AgeOf(stats, n, now) = 3600
        /\ stats[n].use_count = U32(22027)
        /\ b_result[n] = calculate_boost(stats, n, now)
        /\ b_result[n] < 1000000

\* C14: the recency function is continuous at its boundaries: at age 3600 the
\* branch taken evaluates to 1.0, the constant of the branch below it.
C14_RecencyContinuousAtOneHour ==
    \A n \in DOMAIN stats :
        AgeOf(stats, n, now) = 3600 =>
            /\ recency_boost(saturating_sub(now, stats[n].last_used)) = 1000000
            /\ b_result[n] = calculate_boost(stats, n, now - 1)

(***************************************************************************)
(* Claims about the usage file, checked under SpecUsage                    *)
(***************************************************************************)
\* C15: UsageTracker::load returns an empty tracker, not an error, when the
\* usage file does not exist and when it exists but does not deserialize.
C15_LoadOfMissingOrCorruptFileIsEmpty ==
    [][(Load(TRUE, TRUE) /\ u_file.kind \in {"absent", "corrupt"}) =>
          (u_status' = "ok" /\ stats' = UsageTracker_new)]_vars

(***************************************************************************)
(* Claims about the rebuild and the entries, checked under Spec            *)
(***************************************************************************)
\* The number of files of the directories on disk that parse and carry a
\* non-empty name.
ValidFiles(dirs) == Len(NamesOfDirs(dirs, 1))

\* C16: a rebuild returns exactly the entries of the files that parse and
\* carry a non-empty name, in the order of the directories and their files:
\* the files that fail are skipped, a directory that cannot be read is
\* skipped, and the order in which the parses complete does not matter.
C16_RebuildKeepsExactlyValidFiles ==
    [][CachedRebuild =>
          /\ Len(d_entries') = ValidFiles(fs_dirs)
          /\ [i \in 1..Len(d_entries') |-> d_entries'[i].name] = NamesOfDirs(fs_dirs, 1)
          /\ \A i \in 1..Len(d_entries') : d_entries'[i].open_type # "Window"]_vars

\* A rebuild found three valid files in a directory that also holds a
\* malformed and a nameless file, next to a directory that is not there.
C16_Witness ==
    /\ pc = "save"
    /\ path = "miss"
    /\ Len(d_entries) = 3
    /\ [i \in 1..Len(d_entries) |-> d_entries[i].name] = NamesOfDirs(fs_dirs, 1)
    /\ \E d \in Dirs : ~fs_dirs[d].exists
    /\ \E d \in Dirs :
          /\ fs_dirs[d].exists
          /\ \E i, j \in 1..Len(fs_dirs[d].files) :
                ~fs_dirs[d].files[i].parses /\ fs_dirs[d].files[j].name = None

\* C17: every Entry that get_entries returns has a non-empty name and a
\* non-empty icon string, also when the icon field of the desktop file or the
\* application identifier of the window is the empty string.
C17_EntriesHaveNameAndIcon ==
    ret.kind = "Ok" =>
        \A i \in 1..Len(ret.entries) :
            ret.entries[i].name # <<>> /\ ret.entries[i].icon # ""

\* C18: a save replaces the cache file atomically: whatever happens to the
\* save, interrupted part-way or not, a load finds afterwards the complete
\* previous content or the complete new one.
C18_SaveIsAtomicReplacement ==
    [][CachedSave =>
          \/ fs_cache' = fs_cache
          \/ fs_cache' = CacheFile("data",
                 CacheData(d_entries, collect_directory_timestamps(fs_dirs)))]_vars

\* C19: a cache that passes the validity test is never stale: whenever the
\* saved CacheData is accepted for the directories on disk, it holds exactly
\* the entries a rebuild of these directories yields.
C19_AcceptedCacheIsFresh ==
    (fs_cache.kind = "data" /\ cache_accepted(fs_cache.data, fs_dirs)) =>
        \A order \in CompletionOrders :
            fs_cache.data.entries = get_desktop_entries(fs_dirs, order)

(***************************************************************************)
(* Claims about the selection, checked under SpecApp                       *)
(***************************************************************************)
\* The selection agrees with the rows on display.
SelectionConsistent ==
    IF Len(entries) > 0
    THEN /\ selected_index < Len(entries)
         /\ \A i \in 1..Len(entries) : entries[i].selected <=> (i = selected_index + 1)
         /\ selected_name = entries[selected_index + 1].entry.name
    ELSE selected_index = 0 /\ selected_name = <<>>

\* C20: after every message the selection agrees with the list on display
\* (the row at selected_index, and only it, is marked and gives
\* selected_name; index 0 and an empty name for an empty list); NavigateDown
\* and NavigateUp move the index by one modulo the length, and SearchChanged
\* and WindowShown reset it to 0.
C20_SelectionFollowsMessages ==
    [][/\ a_status' = "running" => SelectionConsistent'
       /\ (NavigateDown /\ Len(entries) > 0)
             => selected_index' = (selected_index + 1) % Len(entries)
       /\ (NavigateUp /\ Len(entries) > 0)
             => selected_index' = (selected_index + Len(entries) - 1) % Len(entries)
       /\ ((\E query \in Queries : SearchChanged(query)) \/ (WindowShown /\ a_status' = "running"))
             => selected_index' = 0]_vars

\* The last of several rows of a filtered list is selected, as NavigateUp
\* from the first row leaves it.
C20_Witness ==
    /\ a_status = "running"
    /\ search_query # <<>>
    /\ Len(entries) >= 2
    /\ selected_index = Len(entries) - 1
    /\ entries[Len(entries)].selected
    /\ selected_name = entries[Len(entries)].entry.name

====
